---- MODULE Spec2Model ----
(***************************************************************************)
(* Model of the WHERE clause renderer of db-query-builder                  *)
(* (postgres.BuildSQLWhere and the models.Field predicate model).          *)
(*                                                                         *)
(* Go strings are modelled as sequences of one-character strings, so that  *)
(* formatting ("%s %s $%d"), lower-casing, prefixes and the counting of    *)
(* characters are computed and not assumed.  A Go interface{} value is a   *)
(* record [t |-> dynamic type, v |-> value]; the nil interface is Nil.     *)
(* A nil slice and an empty slice are both the empty sequence: the code    *)
(* never builds an empty non-nil argument slice.                           *)
(***************************************************************************)
EXTENDS Integers, Sequences, FiniteSets, TLC

(***************************************************************************)
(* Bounds of the model.                                                    *)
(***************************************************************************)
\* longest predicate sequence drawn from the field domain
MaxLen == 2

\* longest column list drawn from the column names
MaxCols == 3

\* a column list long enough for placeholders of two digits
ManyCols == 11

\* longest sequence of sorts
MaxSorts == 2

\* longest allow-list of names or sources
MaxAllowed == 2

\* the width of uint, scaled down from 64 bits
UintBits == 5

\* concurrent calls of BuildSQLWhere
NumCalls == 2

(***************************************************************************)
(* Text helpers: strings.ToLower, fmt's %d, strings.Repeat.                *)
(***************************************************************************)
UpperChars == <<"A","B","C","D","E","F","G","H","I","J","K","L","M",
                "N","O","P","Q","R","S","T","U","V","W","X","Y","Z">>
LowerChars == <<"a","b","c","d","e","f","g","h","i","j","k","l","m",
                "n","o","p","q","r","s","t","u","v","w","x","y","z">>
DigitChars == <<"0","1","2","3","4","5","6","7","8","9">>

ToLowerChar(c) ==
    IF \E i \in DOMAIN UpperChars : UpperChars[i] = c
    THEN LowerChars[CHOOSE i \in DOMAIN UpperChars : UpperChars[i] = c]
    ELSE c

ToLower(s) == [i \in 1..Len(s) |-> ToLowerChar(s[i])]

RECURSIVE FormatInt(_)
FormatInt(n) ==
    IF n < 10 THEN <<DigitChars[n + 1]>>
    ELSE FormatInt(n \div 10) \o <<DigitChars[(n % 10) + 1]>>

Repeat(s, n) == [i \in 1..(n * Len(s)) |-> s[((i - 1) % Len(s)) + 1]]

\* number of occurrences of character c in text s
CountChar(s, c) == Cardinality({i \in 1..Len(s) : s[i] = c})

HasPrefix(s, p) == Len(s) >= Len(p) /\ SubSeq(s, 1, Len(p)) = p

\* the character U+0060, which the string syntax of TLA+ cannot hold
BackQuote == "U+0060"

(***************************************************************************)
(* Constants of the packages.                                              *)
(***************************************************************************)
ErrFieldsAreEmpty ==
    <<"F","A","I","L","E","D","!"," ","Y","O","U"," ","N","E","E","D"," ",
      "T","O"," ","S","E","N","D"," ","F","I","E","L","D","S">>

ErrFromValueIsEmpty ==
    <<BackQuote,"f","r","o","m",BackQuote," ","v","a","l","u","e"," ","i","s"," ",
      "e","m","p","t","y">>
ErrToValueIsEmpty ==
    <<BackQuote,"t","o",BackQuote," ","v","a","l","u","e"," ","i","s"," ",
      "e","m","p","t","y">>
ErrFromAndToValuesAreMissMatch ==
    <<BackQuote,"f","r","o","m",BackQuote," ","a","n","d"," ",BackQuote,"t","o",BackQuote," ",
      "v","a","l","u","e","s"," ","a","r","e"," ",
      "m","i","s","s","m","a","t","c","h">>

NoOperator == <<>>
Equals == <<"=">>
NotEqualTo == <<"<", ">">>
LessThan == <<"<">>
GreaterThan == <<">">>
LessThanOrEqualTo == <<"<", "=">>
GreaterThanOrEqualTo == <<">", "=">>
Ilike == <<"I","L","I","K","E">>
In == <<"I","N">>
IsNull == <<"I","S"," ","N","U","L","L">>
IsNotNull == <<"I","S"," ","N","O","T"," ","N","U","L","L">>
Between == <<"B","E","T","W","E","E","N">>

NoChaining == <<>>
And == <<"A","N","D">>
Or == <<"O","R">>

(***************************************************************************)
(* Dynamically typed values (interface{}).                                 *)
(***************************************************************************)
Nil == [t |-> "nil"]
IntV(n) == [t |-> "int", v |-> n]
StrV(s) == [t |-> "string", v |-> s]
BoolV(b) == [t |-> "bool", v |-> b]
UintsV(s) == [t |-> "[]uint", v |-> s]
IntsV(s) == [t |-> "[]int", v |-> s]
StrsV(s) == [t |-> "[]string", v |-> s]

\* reflect.TypeOf
TypeOf(x) == x.t

(***************************************************************************)
(* models.Field                                                            *)
(***************************************************************************)
Field(name, op, value, from, to, ck, src, gopen, gclose, isvft, nvft, snvft) ==
    [Name |-> name, Operator |-> op, Value |-> value,
     FromValue |-> from, ToValue |-> to, ChainingKey |-> ck,
     Source |-> src, GroupOpen |-> gopen, GroupClose |-> gclose,
     IsValueFromTable |-> isvft, NameValueFromTable |-> nvft,
     SourceNameValueFromTable |-> snvft]

\* a validation that looks at ToValue before FromValue
ValidateToValueFirst(f) ==
    IF f.ToValue = Nil THEN ErrToValueIsEmpty
    ELSE IF f.FromValue = Nil THEN ErrFromValueIsEmpty
    ELSE IF TypeOf(f.FromValue) # TypeOf(f.ToValue)
         THEN ErrFromAndToValuesAreMissMatch
    ELSE <<>>

\* the failure of Field.ValidateFromAndToValues, <<>> standing for a nil error
ValidateFromAndToValues(f) ==
    IF f.FromValue = Nil THEN ErrFromValueIsEmpty
    ELSE IF f.ToValue = Nil THEN ErrToValueIsEmpty
    ELSE IF TypeOf(f.FromValue) # TypeOf(f.ToValue)
         THEN ErrFromAndToValuesAreMissMatch
    ELSE <<>>

IsEmpty(fs) == Len(fs) = 0

(***************************************************************************)
(* Defaulting helpers, applied to the private loop copy of a field.      *)
(***************************************************************************)
\* a defaulting of the chaining key to OR
setChainingFieldOr(f) ==
    IF f.ChainingKey = NoChaining THEN [f EXCEPT !.ChainingKey = Or] ELSE f

setChainingField(f) ==
    IF f.ChainingKey = NoChaining THEN [f EXCEPT !.ChainingKey = And] ELSE f

setOperatorField(f) ==
    IF f.Operator = NoOperator THEN [f EXCEPT !.Operator = Equals] ELSE f

setAliases(f) ==
    LET g == IF f.Source # <<>>
             THEN [f EXCEPT !.Name = f.Source \o <<".">> \o f.Name]
             ELSE f
    IN  IF g.SourceNameValueFromTable # <<>>
        THEN [g EXCEPT !.NameValueFromTable =
                  g.SourceNameValueFromTable \o <<".">> \o g.NameValueFromTable]
        ELSE g

\* a group opened without its parenthesis
setGroupOpenSilent(f) == f

setGroupOpen(f) ==
    IF f.GroupOpen THEN [f EXCEPT !.Name = <<"(">> \o f.Name] ELSE f

setDefaultValuesField(f) ==
    setGroupOpen(setAliases(setOperatorField(setChainingField(f))))

(***************************************************************************)
(* BuildIN: the inline membership list.                                    *)
(***************************************************************************)
RECURSIVE JoinInts(_)
JoinInts(items) ==
    IF items = <<>> THEN <<>>
    ELSE FormatInt(Head(items)) \o <<",">> \o JoinInts(Tail(items))

RECURSIVE JoinQuoted(_)
JoinQuoted(items) ==
    IF items = <<>> THEN <<>>
    ELSE <<"'">> \o Head(items) \o <<"'", ",">> \o JoinQuoted(Tail(items))

TrimSuffix(s, suf) ==
    IF Len(s) >= Len(suf) /\ SubSeq(s, Len(s) - Len(suf) + 1, Len(s)) = suf
    THEN SubSeq(s, 1, Len(s) - Len(suf))
    ELSE s

\* a membership list written without looking at the length of the list
BuildINUnchecked(f) ==
    LET nameField == ToLower(f.Name)
        mistakeIN == nameField \o <<" ","=", " ", "0">>
        list(args) == nameField \o <<" ","I","N"," ","(">>
                        \o TrimSuffix(args, <<",">>) \o <<")">>
    IN  IF TypeOf(f.Value) \in {"[]uint", "[]int"}
        THEN list(JoinInts(f.Value.v))
        ELSE IF TypeOf(f.Value) = "[]string"
        THEN list(JoinQuoted(f.Value.v))
        ELSE mistakeIN

BuildIN(f) ==
    LET nameField == ToLower(f.Name)
        mistakeIN == nameField \o <<" ","=", " ", "0">>
        list(args) == nameField \o <<" ","I","N"," ","(">>
                        \o TrimSuffix(args, <<",">>) \o <<")">>
    IN  IF TypeOf(f.Value) \in {"[]uint", "[]int"}
        THEN IF Len(f.Value.v) = 0 THEN mistakeIN
             ELSE list(JoinInts(f.Value.v))
        ELSE IF TypeOf(f.Value) = "[]string"
        THEN IF Len(f.Value.v) = 0 THEN mistakeIN
             ELSE list(JoinQuoted(f.Value.v))
        ELSE mistakeIN

(***************************************************************************)
(* The body of the loop of BuildSQLWhere, one operator per block.          *)
(***************************************************************************)
Placeholder(n) == <<"$">> \o FormatInt(n)

\* the switch on field.Operator: the text written for the predicate
WritePredicate(field, paramSequence) ==
    IF field.Operator = In THEN BuildIN(field)
    ELSE IF field.Operator \in {IsNull, IsNotNull}
    THEN ToLower(field.Name) \o <<" ">> \o field.Operator
    ELSE IF field.Operator = Between
    THEN ToLower(field.Name) \o <<" ">> \o field.Operator \o <<" ">>
           \o Placeholder(paramSequence) \o <<" ","A","N","D"," ">>
           \o Placeholder(paramSequence + 1)
    ELSE IF field.IsValueFromTable
    THEN ToLower(field.Name) \o <<" ">> \o field.Operator \o <<" ">>
           \o ToLower(field.NameValueFromTable)
    ELSE ToLower(field.Name) \o <<" ">> \o field.Operator \o <<" ">>
           \o Placeholder(paramSequence)

\* the switch on field.Operator: paramSequence after it
SwitchParamSequence(field, paramSequence) ==
    IF field.Operator = Between THEN paramSequence + 1 ELSE paramSequence

\* a counter lowered by every GroupClose, whatever the depth
CloseGroupUnguarded(field, nGroups) ==
    IF field.GroupClose THEN nGroups - 1 ELSE nGroups

\* "Close the group": the counter after the block
CloseGroup(field, nGroups) ==
    IF nGroups > 0 /\ field.GroupClose THEN nGroups - 1 ELSE nGroups

\* a closing of groups that leaves open the groups the caller did not close
WriteGroupCloseUnforced(field, nGroups, key, lastFieldIndex) ==
    IF nGroups > 0 /\ field.GroupClose THEN <<")">> ELSE <<>>

\* "Close the group" and "close them in the last field": the text written;
\* nGroups is the counter before the two blocks
WriteGroupClose(field, nGroups, key, lastFieldIndex) ==
    LET n == CloseGroup(field, nGroups)
    IN  (IF nGroups > 0 /\ field.GroupClose THEN <<")">> ELSE <<>>)
          \o (IF n > 0 /\ key = lastFieldIndex THEN Repeat(<<")">>, n)
              ELSE <<>>)

\* a chaining key written after every field, the last one too
WriteChainingKeyAlways(field, key, lastFieldIndex) ==
    <<" ">> \o field.ChainingKey \o <<" ">>

\* "Add chainingKey (OR, AND) except in the last field"
WriteChainingKey(field, key, lastFieldIndex) ==
    IF key # lastFieldIndex THEN <<" ">> \o field.ChainingKey \o <<" ">>
    ELSE <<>>

\* the condition of the continue statement
SkipsArguments(field) ==
    \/ field.Operator = In
    \/ field.Operator = IsNull
    \/ field.Operator = IsNotNull
    \/ field.IsValueFromTable

\* the two appends after the continue statement
AppendArguments(field, args) ==
    LET a == IF field.Value # Nil THEN Append(args, field.Value) ELSE args
    IN  IF field.Operator = Between
        THEN a \o <<field.FromValue, field.ToValue>>
        ELSE a

\* paramSequence at the end of the iteration
EndParamSequence(field, paramSequence) ==
    IF SkipsArguments(field) THEN SwitchParamSequence(field, paramSequence)
    ELSE SwitchParamSequence(field, paramSequence) + 1

(***************************************************************************)
(* The builders of the other fragments, and the helpers of the models.     *)
(***************************************************************************)
\* bytes.Buffer.Truncate(n)
Truncate(s, n) == SubSeq(s, 1, n)

\* "args.WriteString(v); args.WriteString(", ")" over the first n columns
RECURSIVE WriteColumns(_, _)
WriteColumns(fields, n) ==
    IF n = 0 THEN <<>>
    ELSE WriteColumns(fields, n - 1) \o fields[n] \o <<","," ">>

\* "values.WriteString(fmt.Sprintf("$%d, ", k))" for the n numbers from first
RECURSIVE WriteValues(_, _)
WriteValues(first, n) ==
    IF n = 0 THEN <<>>
    ELSE WriteValues(first, n - 1) \o Placeholder(first + n - 1) \o <<",",
                                                                      " ">>

\* placeholders numbered as the index of the loop is, from 0
InsertValuesFromZero(n) == WriteValues(0, n)

\* the placeholders of BuildSQLInsert: k+1 for the index k of each column
InsertValues(n) == WriteValues(1, n)

BuildSQLInsert(table, fields) ==
    IF Len(fields) = 0 THEN ErrFieldsAreEmpty
    ELSE LET args == WriteColumns(fields, Len(fields))
             values == InsertValues(Len(fields))
         IN  <<"I","N","S","E","R","T"," ","I","N","T","O"," ">> \o table \o <<
                                                                               " ",
                                                                               "(">>
               \o Truncate(args, Len(args) - 2) \o <<")"," ","V","A","L",
                                                     "U","E","S"," ","(">>
               \o Truncate(values, Len(values) - 2)
               \o <<")"," ","R","E","T","U","R","N","I","N","G"," ","i","d",
                    ","," ","c","r","e","a","t","e","d","_","a","t">>

BuildSQLInsertWithID(table, fields) ==
    IF Len(fields) = 0 THEN ErrFieldsAreEmpty
    ELSE LET args == <<"i","d",","," ">> \o WriteColumns(fields, Len(fields))
             values == Placeholder(1) \o <<","," ">>
                         \o WriteValues(2, Len(fields))
         IN  <<"I","N","S","E","R","T"," ","I","N","T","O"," ">> \o table \o <<
                                                                               " ",
                                                                               "(">>
               \o Truncate(args, Len(args) - 2) \o <<")"," ","V","A","L",
                                                     "U","E","S"," ","(">>
               \o Truncate(values, Len(values) - 2)
               \o <<")"," ","R","E","T","U","R","N","I","N","G"," ","c","r",
                    "e","a","t","e","d","_","a","t">>

\* "args.WriteString(fmt.Sprintf("%s = $%d, ", v, k+1))" over n columns
RECURSIVE WriteAssignments(_, _)
WriteAssignments(fields, n) ==
    IF n = 0 THEN <<>>
    ELSE WriteAssignments(fields, n - 1) \o fields[n] \o <<" ","="," ">>
           \o Placeholder(n) \o <<","," ">>

BuildSQLUpdateByID(table, fields) ==
    IF Len(fields) = 0 THEN ErrFieldsAreEmpty
    ELSE <<"U","P","D","A","T","E"," ">> \o table \o <<" ","S","E","T"," ">>
           \o WriteAssignments(fields, Len(fields))
           \o <<"u","p","d","a","t","e","d","_","a","t"," ","="," ","n","o",
                "w","(",")"," ","W","H","E","R","E"," ","i","d"," ","="," ">>
           \o Placeholder(Len(fields) + 1)

\* a SELECT written whatever the number of columns
BuildSQLSelectUnchecked(table, fields) ==
    <<"S","E","L","E","C","T"," ","i","d",","," ">> \o WriteColumns(fields, Len(fields))
      \o <<"c","r","e","a","t","e","d","_","a","t",","," ","u","p","d","a",
           "t","e","d","_","a","t"," ","F","R","O","M"," ">> \o table

BuildSQLSelect(table, fields) ==
    IF Len(fields) = 0 THEN ErrFieldsAreEmpty
    ELSE <<"S","E","L","E","C","T"," ","i","d",","," ">> \o WriteColumns(fields, Len(fields))
           \o <<"c","r","e","a","t","e","d","_","a","t",","," ","u","p","d",
                "a","t","e","d","_","a","t"," ","F","R","O","M"," ">> \o table

BuildSQLSelectFields(table, fields) ==
    IF Len(fields) = 0 THEN ErrFieldsAreEmpty
    ELSE LET args == WriteColumns(fields, Len(fields))
         IN  <<"S","E","L","E","C","T"," ">> \o Truncate(args, Len(args) - 2) \o <<
                                                                                   " ",
                                                                                   "F",
                                                                                   "R",
                                                                                   "O",
                                                                                   "M",
                                                                                   " ">>
               \o table

\* "columns.WriteString(fmt.Sprintf("%s.%s, ", aliased, v))" over n columns
RECURSIVE WriteAliased(_, _, _)
WriteAliased(fields, aliased, n) ==
    IF n = 0 THEN <<>>
    ELSE WriteAliased(fields, aliased, n - 1) \o aliased \o <<".">>
           \o fields[n] \o <<","," ">>

ColumnsAliased(fields, aliased) ==
    IF Len(fields) = 0 THEN <<>>
    ELSE aliased \o <<".","i","d",","," ">> \o WriteAliased(fields, aliased, Len(fields))
           \o aliased \o <<".","c","r","e","a","t","e","d","_","a","t",",",
                           " ">> \o aliased \o <<".","u","p","d","a","t",
                                                 "e","d","_","a","t">>

\* models.SortField
SortField(name, order, source) ==
    [Name |-> name, Order |-> order, Source |-> source]

NoOrder == <<>>
Asc == <<"A","S","C">>
Desc == <<"D","E","S","C">>

setSortFieldOrder(sortField) ==
    IF sortField.Order = NoOrder THEN [sortField EXCEPT !.Order = Asc]
    ELSE sortField

setSortFieldAliases(sortField) ==
    IF sortField.Source # <<>>
    THEN [sortField EXCEPT !.Name = sortField.Source \o <<".">> \o sortField.Name]
    ELSE sortField

\* the sort the loop of BuildSQLOrderBy writes: a defaulted copy of sorts[k]
LoopSort(sorts, k) == setSortFieldAliases(setSortFieldOrder(sorts[k]))

\* the body of the loop of BuildSQLOrderBy over the first n sorts
RECURSIVE WriteSorts(_, _)
WriteSorts(sorts, n) ==
    IF n = 0 THEN <<>>
    ELSE WriteSorts(sorts, n - 1) \o ToLower(LoopSort(sorts, n).Name)
           \o <<" ">> \o LoopSort(sorts, n).Order \o <<","," ">>

BuildSQLOrderBy(sorts) ==
    IF Len(sorts) = 0 THEN <<>>
    ELSE LET query == <<"O","R","D","E","R"," ","B","Y"," ">> \o WriteSorts(sorts, Len(sorts))
         IN  Truncate(query, Len(query) - 2)

\* "for _, sort := range sorts": sort is a copy, and the sorts of the caller
\* are as they were once the loop has set its defaults on the copies
RangeSorts(sorts) == sorts

\* the numbers a uint holds, and what its arithmetic wraps at
UintModulus == 2 ^ UintBits

DefaultMaxLimit == 20

\* models.Pagination
Pagination(page, limit, maxLimit) ==
    [Page |-> page, Limit |-> limit, MaxLimit |-> maxLimit]

\* pag, the copy BuildSQLPagination works on, once its defaults are set
setPaginationDefaults(pag) ==
    LET m == IF pag.MaxLimit = 0 THEN [pag EXCEPT !.MaxLimit = DefaultMaxLimit]
             ELSE pag
        l == IF m.Limit = 0 \/ m.Limit > m.MaxLimit
             THEN [m EXCEPT !.Limit = m.MaxLimit]
             ELSE m
    IN  IF l.Page = 0 THEN [l EXCEPT !.Page = 1] ELSE l

\* an offset that counts the current page too
OffsetOfNextPage(pag) == (pag.Page * pag.Limit) % UintModulus

\* "offset := pag.Page*pag.Limit - pag.Limit" on uint
Offset(pag) ==
    (((pag.Page * pag.Limit) % UintModulus) - pag.Limit) % UintModulus

BuildSQLPagination(pag) ==
    IF pag.Limit = 0 /\ pag.Page = 0 THEN <<>>
    ELSE LET p == setPaginationDefaults(pag)
         IN  <<"L","I","M","I","T"," ">> \o FormatInt(p.Limit) \o <<" ","O",
                                                                    "F","F",
                                                                    "S","E",
                                                                    "T"," ">>
               \o FormatInt(Offset(p))

\* pag is passed by value: the Pagination of the caller is as it was
PassPagination(pag) == pag

(***************************************************************************)
(* CheckConstraint. An error is the chain errors.As walks, the outermost   *)
(* error first; nil is the empty chain.                                    *)
(***************************************************************************)
NilError == <<>>

\* one error of a chain: its dynamic type, the Constraint and the Code of a
\* *pq.Error, its text otherwise
PqError(constraint) ==
    [type |-> "*pq.Error", Constraint |-> constraint, Code |-> <<>>,
     text |-> <<>>]
ErrorString(text) ==
    [type |-> "*errors.errorString", Constraint |-> <<>>, Code |-> <<>>,
     text |-> text]
WrapError(text) ==
    [type |-> "*fmt.wrapError", Constraint |-> <<>>, Code |-> <<>>,
     text |-> text]
\* a driver error that carries the SQLSTATE code of the failure
PqErrorCode(code) ==
    [PqError(<<>>) EXCEPT !.Code = code]

\* a target found by looking at the error itself only
TypeAssertPq(err) ==
    IF err # NilError /\ err[1].type = "*pq.Error" THEN 1 ELSE 0

\* errors.As(err, &psqlErr): the index of the first *pq.Error of the chain,
\* 0 when it has none
ErrorsAsPq(err) ==
    IF \E i \in 1..Len(err) : err[i].type = "*pq.Error"
    THEN CHOOSE i \in 1..Len(err) :
             /\ err[i].type = "*pq.Error"
             /\ \A j \in 1..(i - 1) : err[j].type # "*pq.Error"
    ELSE 0

\* constraints is a function from the names it maps to their errors
CheckConstraint(constraints, err) ==
    LET psqlErr == ErrorsAsPq(err)
    IN  IF psqlErr = 0 THEN err
        ELSE IF err[psqlErr].Constraint \notin DOMAIN constraints THEN err
        ELSE constraints[err[psqlErr].Constraint]

(***************************************************************************)
(* CheckError. The errors of the domain are values made by errors.New.     *)
(***************************************************************************)
ErrUnique == <<ErrorString(<<"U","n","i","q","u","e"," ","v","i","o","l","a","t","i","o","n">>)>>
ErrForeignKey == <<ErrorString(<<"F","o","r","e","i","g","n"," ","k","e","y"," ","v","i","o","l","a","t","i","o","n">>)>>
ErrNotNull == <<ErrorString(<<"N","o","t"," ","N","u","l","l"," ","v","i","o","l","a","t","i","o","n">>)>>

\* the type assertion err.(*pq.Error): the dynamic type of err itself, no
\* unwrapping
IsPqError(err) ==
    err # NilError /\ err[1].type = "*pq.Error"

\* the result for an error the switch does not name
CheckErrorPassing(err) ==
    IF ~IsPqError(err) THEN err
    ELSE IF err[1].Code = <<"2","3","5","0","5">> THEN ErrUnique
    ELSE IF err[1].Code = <<"2","3","5","0","3">> THEN ErrForeignKey
    ELSE IF err[1].Code = <<"2","3","5","0","2">> THEN ErrNotNull
    ELSE err
CheckError(err) ==
    IF ~IsPqError(err) THEN NilError
    ELSE IF err[1].Code = <<"2","3","5","0","5">> THEN ErrUnique
    ELSE IF err[1].Code = <<"2","3","5","0","3">> THEN ErrForeignKey
    ELSE IF err[1].Code = <<"2","3","5","0","2">> THEN ErrNotNull
    ELSE NilError

(***************************************************************************)
(* Fields.ValidateNames and Fields.ValidateSources.                        *)
(***************************************************************************)
\* strings.EqualFold on the letters of ASCII
EqualFoldExact(a, b) == a = b

EqualFold(a, b) == ToLower(a) = ToLower(b)

\* the inner loop: some entry of the allow-list is name under EqualFold
IsAllowed(allowed, name) ==
    \E j \in 1..Len(allowed) : EqualFold(allowed[j], name)

RECURSIVE ValidateNamesFrom(_, _, _)
ValidateNamesFrom(fs, i, allowedFields) ==
    IF i > Len(fs) THEN NilError
    ELSE IF ~IsAllowed(allowedFields, fs[i].Name)
    THEN <<"t","h","e"," ","f","i","e","l","d"," ">> \o fs[i].Name \o <<" ",
                                                                        "i",
                                                                        "s",
                                                                        " ",
                                                                        "n",
                                                                        "o",
                                                                        "t",
                                                                        " ",
                                                                        "a",
                                                                        "l",
                                                                        "l",
                                                                        "o",
                                                                        "w",
                                                                        "e",
                                                                        "d",
                                                                        " ",
                                                                        "f",
                                                                        "o",
                                                                        "r",
                                                                        " ",
                                                                        "q",
                                                                        "u",
                                                                        "e",
                                                                        "r",
                                                                        "y">>
    ELSE ValidateNamesFrom(fs, i + 1, allowedFields)

ValidateNames(fs, allowedFields) == ValidateNamesFrom(fs, 1, allowedFields)

RECURSIVE ValidateSourcesFrom(_, _, _)
ValidateSourcesFrom(fs, i, sourcesAllowed) ==
    IF i > Len(fs) THEN NilError
    ELSE IF ~IsAllowed(sourcesAllowed, fs[i].Source)
    THEN <<"t","h","e"," ","s","o","u","r","c","e"," ">> \o fs[i].Source \o <<
                                                                              " ",
                                                                              "i",
                                                                              "s",
                                                                              " ",
                                                                              "n",
                                                                              "o",
                                                                              "t",
                                                                              " ",
                                                                              "a",
                                                                              "l",
                                                                              "l",
                                                                              "o",
                                                                              "w",
                                                                              "e",
                                                                              "d",
                                                                              " ",
                                                                              "f",
                                                                              "o",
                                                                              "r",
                                                                              " ",
                                                                              "q",
                                                                              "u",
                                                                              "e",
                                                                              "r",
                                                                              "y">>
    ELSE ValidateSourcesFrom(fs, i + 1, sourcesAllowed)

ValidateSources(fs, sourcesAllowed) ==
    ValidateSourcesFrom(fs, 1, sourcesAllowed)

(***************************************************************************)
(* The predicate sequences a caller hands to BuildSQLWhere.                *)
(***************************************************************************)
ScalarOperators ==
    {NoOperator, Equals, NotEqualTo, LessThan, GreaterThan,
     LessThanOrEqualTo, GreaterThanOrEqualTo, Ilike}

Operators == ScalarOperators \cup {In, IsNull, IsNotNull, Between}

ColId == <<"I","d">>
ColRef == <<"R","e","f">>

\* a predicate with no grouping, no source and no chaining key
Plain(op, value, isvft) ==
    Field(ColId, op, value, Nil, Nil, NoChaining, <<>>, FALSE, FALSE,
          isvft, IF isvft THEN ColRef ELSE <<>>, <<>>)

\* a Between predicate with no grouping, no source and no chaining key
Range(from, to, value, isvft) ==
    Field(ColId, Between, value, from, to, NoChaining, <<>>, FALSE, FALSE,
          isvft, IF isvft THEN ColRef ELSE <<>>, <<>>)

ScalarValues == {Nil, IntV(30), StrV(<<"G","o">>)}
ListValues == {Nil, UintsV(<<1, 4>>), StrsV(<<<<"C","O">>>>)}
FromValues == {Nil, IntV(1), StrV(<<"x">>)}
ToValues == {Nil, IntV(2), StrV(<<"y">>)}

\* every operator, bound value and cross-table flag, without grouping
ArgFields ==
    {Plain(op, IntV(30), FALSE) : op \in ScalarOperators}
      \cup {Plain(op, v, t) :
              op \in {NoOperator, Ilike}, v \in ScalarValues, t \in BOOLEAN}
      \cup {Plain(op, v, FALSE) :
              op \in {In, IsNull, IsNotNull}, v \in ListValues}
      \cup {Plain(op, Nil, TRUE) : op \in {In, IsNull}}
      \cup {Range(from, to, Nil, FALSE) :
              from \in FromValues, to \in ToValues}
      \cup {Range(IntV(1), IntV(2), v, t) :
              v \in {Nil, IntV(30)}, t \in BOOLEAN}

\* every pairing of the grouping flags and every chaining key
GroupFields ==
    {[f EXCEPT !.GroupOpen = go, !.GroupClose = gc, !.ChainingKey = ck] :
        f \in {Plain(NoOperator, IntV(30), FALSE),
               Plain(In, UintsV(<<1, 4>>), FALSE),
               Range(IntV(1), IntV(2), Nil, FALSE)},
        go \in BOOLEAN, gc \in BOOLEAN, ck \in {NoChaining, Or}}
      \cup {[Plain(NoOperator, IntV(30), FALSE) EXCEPT !.ChainingKey = And]}

FieldDomain == ArgFields \cup GroupFields

RECURSIVE SeqsUpTo(_, _)
SeqsUpTo(S, n) ==
    IF n = 0 THEN {<<>>}
    ELSE LET shorter == SeqsUpTo(S, n - 1)
         IN  shorter \cup {Append(fs, f) : fs \in {g \in shorter : Len(g) = n - 1}, f \in S}

\* a predicate as the tests and the documented scenarios write it
Pred(name, value) ==
    Field(name, NoOperator, value, Nil, Nil, NoChaining, <<>>, FALSE, FALSE,
          FALSE, <<>>, <<>>)

\* TestBuildSQLWhere "where with all operators", its first three predicates
ScenarioChaining ==
    <<Pred(<<"n","a","m","e">>, StrV(<<"A","l","e","j","a","n","d","r","o">>)),
      [Pred(<<"a","g","e">>, IntV(30)) EXCEPT !.ChainingKey = Or],
      Pred(<<"c","o","u","r","s","e">>, StrV(<<"G","o">>))>>

\* a group opened by the second predicate and closed by the third
ScenarioGroup ==
    <<Pred(<<"a">>, IntV(1)),
      [Pred(<<"b">>, BoolV(TRUE)) EXCEPT !.GroupOpen = TRUE, !.ChainingKey = Or],
      [Pred(<<"c">>, BoolV(FALSE)) EXCEPT !.GroupClose = TRUE]>>

\* TestBuildSQLWhere "where with aliased on two tables with upper case",
\* its third and fourth predicates
ScenarioAliased ==
    <<[Pred(<<"e","n","d","S","_","a","t">>, Nil) EXCEPT
          !.Source = <<"c","o","n","t","r","a","c","t","s">>, !.Operator = LessThan,
          !.IsValueFromTable = TRUE,
          !.SourceNameValueFromTable = <<"p","e","R","i","o","d","s">>,
          !.NameValueFromTable = <<"e","N","d","s","_","a","t">>],
      [Pred(<<"i","s","_","a","c","t","i","v","e">>, BoolV(TRUE)) EXCEPT
          !.Source = <<"c","o","n","t","r","a","c","t","s">>]>>

Scenarios == {ScenarioChaining, ScenarioGroup, ScenarioAliased}

Inputs == SeqsUpTo(FieldDomain, MaxLen) \cup Scenarios

(***************************************************************************)
(* State: the caller's sequence, the position in BuildSQLWhere, its local  *)
(* variables and the pair it returns; the call of one of the other         *)
(* functions of the packages and its result; the calls of BuildSQLWhere    *)
(* that run concurrently over the caller's sequence.                       *)
(***************************************************************************)
VARIABLES fields, pc, key, query, args, paramSequence, nGroups,
          retQuery, retArgs, call, result, procs

vars == <<fields, pc, key, query, args, paramSequence, nGroups,
          retQuery, retArgs, call, result, procs>>

\* what a call of BuildSQLWhere by one caller leaves alone
others == <<call, result, procs>>

\* no other function is called, nothing runs concurrently
NoCall == [fn |-> "none"]
NoResult == <<>>
OthersIdle == call = NoCall /\ result = NoResult /\ procs = <<>>

Where == <<"W","H","E","R","E"," ">>

Init ==
    /\ fields \in Inputs
    /\ pc = "call"
    /\ key = 0
    /\ query = <<>>
    /\ args = <<>>
    /\ paramSequence = 0
    /\ nGroups = 0
    /\ retQuery = <<>>
    /\ retArgs = <<>>
    /\ OthersIdle

\* the values of the Value of an In predicate: lists of the three supported
\* types, empty and not, a list of another type, scalars and nil
InValues ==
    {Nil, IntV(30), StrV(<<"f","a","k","e">>), BoolV(TRUE),
     UintsV(<<>>), IntsV(<<>>), StrsV(<<>>),
     UintsV(<<1, 2, 3>>), IntsV(<<5, 16>>),
     StrsV(<<<<"C","O">>, <<"U","S">>>>),
     [t |-> "[]int64", v |-> <<7>>]}

\* In predicates, alone, grouped, aliased and compared with a column, with a
\* scalar predicate and a Between predicate that fails
InDomain ==
    {Plain(In, v, FALSE) : v \in InValues}
      \cup {[Plain(In, v, FALSE) EXCEPT !.GroupOpen = TRUE, !.Source = <<"T">>,
                                        !.ChainingKey = Or] :
               v \in {UintsV(<<>>), Nil}}
      \cup {Plain(In, IntsV(<<>>), TRUE),
            Plain(NoOperator, IntV(30), FALSE),
            Range(Nil, IntV(2), Nil, FALSE)}

\* BuildSQLWhere called over sequences of In predicates
InitIN ==
    /\ fields \in SeqsUpTo(InDomain, MaxLen)
    /\ pc = "call"
    /\ key = 0
    /\ query = <<>>
    /\ args = <<>>
    /\ paramSequence = 0
    /\ nGroups = 0
    /\ retQuery = <<>>
    /\ retArgs = <<>>
    /\ OthersIdle

\* an empty fragment returned for an empty sequence
FieldsEmptyResultBlank == [query |-> <<>>, args |-> <<>>]

\* the result returned for an empty sequence
FieldsEmptyResult == [query |-> ErrFieldsAreEmpty, args |-> <<>>]

\* a validation failure appended to the clause keyword
ValidationFailureResultInClause(err) ==
    [query |-> <<"W","H","E","R","E"," ">> \o err, args |-> <<>>]

\* the result returned when the validation of a Between predicate fails
ValidationFailureResult(err) == [query |-> err, args |-> <<>>]

\* if fields.IsEmpty() { return ErrFieldsAreEmpty, nil }
ReturnFieldsEmpty ==
    /\ pc = "call"
    /\ IsEmpty(fields)
    /\ pc' = "done"
    /\ retQuery' = FieldsEmptyResult.query
    /\ retArgs' = FieldsEmptyResult.args
    /\ UNCHANGED <<fields, key, query, args, paramSequence, nGroups, others>>

\* the initialisation of the locals before the loop
Begin ==
    /\ pc = "call"
    /\ ~IsEmpty(fields)
    /\ pc' = "loop"
    /\ query' = Where
    /\ nGroups' = 0
    /\ args' = <<>>
    /\ paramSequence' = 1
    /\ key' = 0
    /\ UNCHANGED <<fields, retQuery, retArgs, others>>

\* the field the iteration works on: a defaulted copy of fields[key]
LoopField == setDefaultValuesField(fields[key + 1])

\* a group opened without being counted
OpenGroupUncounted(field, n) == n

\* nGroups once "if field.GroupOpen { nGroups++ }" has run
OpenGroup(field, n) == IF field.GroupOpen THEN n + 1 ELSE n

\* an iteration that returns the validation failure of a Between predicate
IterateFails ==
    /\ pc = "loop"
    /\ key < Len(fields)
    /\ LoopField.Operator = Between
    /\ ValidateFromAndToValues(LoopField) # <<>>
    /\ nGroups' = OpenGroup(LoopField, nGroups)
    /\ pc' = "done"
    /\ retQuery' = ValidationFailureResult(ValidateFromAndToValues(LoopField)).query
    /\ retArgs' = ValidationFailureResult(ValidateFromAndToValues(LoopField)).args
    /\ UNCHANGED <<fields, key, query, args, paramSequence, others>>

\* a loop over the elements themselves: the defaults are stored in fields
RangeFieldsInPlace(fs, k, field) == [fs EXCEPT ![k + 1] = field]

\* "for key, field := range fields": field is a copy of fields[key], and
\* setDefaultValuesField(&field) leaves the sequence of the caller as it was
RangeFields(fs, k, field) == fs

\* an iteration that runs to the end of the loop body
Iterate ==
    /\ pc = "loop"
    /\ key < Len(fields)
    /\ ~(LoopField.Operator = Between
           /\ ValidateFromAndToValues(LoopField) # <<>>)
    /\ LET field == LoopField
           lastFieldIndex == Len(fields) - 1
           opened == OpenGroup(field, nGroups)
       IN  /\ query' = query
                 \o WritePredicate(field, paramSequence)
                 \o WriteGroupClose(field, opened, key, lastFieldIndex)
                 \o WriteChainingKey(field, key, lastFieldIndex)
           /\ nGroups' = CloseGroup(field, opened)
           /\ args' = IF SkipsArguments(field) THEN args
                      ELSE AppendArguments(field, args)
           /\ paramSequence' = EndParamSequence(field, paramSequence)
    /\ key' = key + 1
    /\ fields' = RangeFields(fields, key, LoopField)
    /\ UNCHANGED <<pc, retQuery, retArgs, others>>

\* return query.String(), args
Return ==
    /\ pc = "loop"
    /\ key = Len(fields)
    /\ pc' = "done"
    /\ retQuery' = query
    /\ retArgs' = args
    /\ UNCHANGED <<fields, key, query, args, paramSequence, nGroups, others>>

Next == ReturnFieldsEmpty \/ Begin \/ IterateFails \/ Iterate \/ Return

Spec == Init /\ [][Next]_vars

SpecIN == InitIN /\ [][Next]_vars

TypeOK ==
    /\ pc \in {"call", "loop", "done"}
    /\ key \in 0..Len(fields)
    /\ nGroups \in Nat
    /\ paramSequence \in Nat

(***************************************************************************)
(* Reading a returned fragment: its placeholders, its connectors and its   *)
(* grouping parentheses.                                                   *)
(***************************************************************************)
IsDigit(c) == \E d \in DOMAIN DigitChars : DigitChars[d] = c

DigitValue(c) == (CHOOSE d \in DOMAIN DigitChars : DigitChars[d] = c) - 1

StartsAt(text, i, pat) ==
    /\ i + Len(pat) - 1 <= Len(text)
    /\ SubSeq(text, i, i + Len(pat) - 1) = pat

\* the index after the digits that start at index i
RECURSIVE DigitsEnd(_, _)
DigitsEnd(text, i) ==
    IF i <= Len(text) /\ IsDigit(text[i]) THEN DigitsEnd(text, i + 1) ELSE i

\* the number written in decimal at text[i..j-1]
RECURSIVE ParseInt(_, _, _)
ParseInt(text, i, j) ==
    IF j <= i THEN 0
    ELSE 10 * ParseInt(text, i, j - 1) + DigitValue(text[j - 1])

\* the numbers of the placeholders of a text from index i on, left to right
RECURSIVE PlaceholdersFrom(_, _)
PlaceholdersFrom(text, i) ==
    IF i > Len(text) THEN <<>>
    ELSE IF text[i] = "$"
    THEN LET j == DigitsEnd(text, i + 1)
         IN  <<ParseInt(text, i + 1, j)>> \o PlaceholdersFrom(text, j)
    ELSE PlaceholdersFrom(text, i + 1)

PlaceholderNumbers(text) == PlaceholdersFrom(text, 1)

BetweenHead == <<"B","E","T","W","E","E","N"," ","$">>
AndConnector == <<" ","A","N","D"," ">>
OrConnector == <<" ","O","R"," ">>

\* the connectors of a text from index i on, left to right; the AND that
\* separates the two placeholders of a BETWEEN is not a connector
RECURSIVE ConnectorsFrom(_, _)
ConnectorsFrom(text, i) ==
    IF i > Len(text) THEN <<>>
    ELSE IF StartsAt(text, i, BetweenHead)
    THEN ConnectorsFrom(text,
             DigitsEnd(text, i + Len(BetweenHead)) + Len(AndConnector))
    ELSE IF StartsAt(text, i, AndConnector)
    THEN <<And>> \o ConnectorsFrom(text, i + Len(AndConnector) - 1)
    ELSE IF StartsAt(text, i, OrConnector)
    THEN <<Or>> \o ConnectorsFrom(text, i + Len(OrConnector) - 1)
    ELSE ConnectorsFrom(text, i + 1)

Connectors(text) == ConnectorsFrom(text, 1)

Occurrences(text, pat) ==
    Cardinality({i \in 1..Len(text) : StartsAt(text, i, pat)})

\* the inline lists of a text, each with one "(" and one ")" of its own
InLists(text) == Occurrences(text, <<" ","I","N"," ","(">>)

GroupOpens(text) == CountChar(text, "(") - InLists(text)
GroupCloses(text) == CountChar(text, ")") - InLists(text)

(***************************************************************************)
(* What the claims speak of.                                               *)
(***************************************************************************)
\* the chaining key a predicate is rendered with
ChainingOf(f) == IF f.ChainingKey = NoChaining THEN And ELSE f.ChainingKey

\* the range failure of a Between predicate, <<>> when it has none
RangeFailure(f) ==
    CASE f.FromValue = Nil -> ErrFromValueIsEmpty
      [] f.FromValue # Nil /\ f.ToValue = Nil -> ErrToValueIsEmpty
      [] f.FromValue # Nil /\ f.ToValue # Nil /\ f.FromValue.t # f.ToValue.t
           -> ErrFromAndToValuesAreMissMatch
      [] OTHER -> <<>>

InvalidBetween(f) == f.Operator = Between /\ RangeFailure(f) # <<>>

\* BuildSQLWhere renders fs: it is not empty and no Between predicate fails
Renders(fs) == fs # <<>> /\ \A i \in 1..Len(fs) : ~InvalidBetween(fs[i])

Finished == pc = "done"

\* the placeholders the predicate f emits
EmittedBy(f) ==
    Len(PlaceholderNumbers(WritePredicate(setDefaultValuesField(f), 1)))

\* the values bound by the placeholders of f: its Value for one placeholder,
\* its FromValue and ToValue for two
BoundBy(f) ==
    IF EmittedBy(f) = 0 THEN <<>>
    ELSE IF EmittedBy(f) = 1 THEN <<f.Value>>
    ELSE <<f.FromValue, f.ToValue>>

RECURSIVE BoundValues(_)
BoundValues(fs) ==
    IF fs = <<>> THEN <<>> ELSE BoundBy(Head(fs)) \o BoundValues(Tail(fs))

\* C1: for every sequence that is rendered, the placeholders of the fragment
\* are $1..$m left to right, there are m arguments, and argument k is the
\* value bound by the predicate that emitted placeholder k.
C1_PlaceholdersMatchArguments ==
    (Finished /\ Renders(fields)) =>
        LET nums == PlaceholderNumbers(retQuery)
        IN  /\ nums = [k \in 1..Len(nums) |-> k]
            /\ Len(retArgs) = Len(nums)
            /\ retArgs = BoundValues(fields)

\* C2: whatever the pairing of GroupOpen and GroupClose, the returned
\* fragment has as many grouping "(" as grouping ")".
C2_ParenthesesBalanced ==
    Finished => GroupOpens(retQuery) = GroupCloses(retQuery)

\* two groups opened, none closed by the caller, both closed in the fragment
C2_Witness ==
    /\ Finished
    /\ GroupOpens(retQuery) = 2
    /\ \A i \in 1..Len(fields) : ~fields[i].GroupClose

ScalarOnly(fs) ==
    /\ fs # <<>>
    /\ \A i \in 1..Len(fs) :
          /\ fs[i].Operator \in ScalarOperators
          /\ ~fs[i].GroupOpen
          /\ ~fs[i].GroupClose
          /\ ~fs[i].IsValueFromTable

\* C3: for a non-empty sequence of scalar comparisons without grouping and
\* without cross-table comparison, whatever the Values, the fragment has as
\* many placeholders as there are arguments, and the arguments are the
\* Values in predicate order.
C3_ScalarPlaceholdersMatchArguments ==
    (Finished /\ ScalarOnly(fields)) =>
        /\ Len(PlaceholderNumbers(retQuery)) = Len(retArgs)
        /\ retArgs = [i \in 1..Len(fields) |-> fields[i].Value]

\* C4: a rendered sequence of n predicates has n-1 connectors, the i-th being
\* the chaining key (AND when unset) of predicate i; the chaining key of the
\* last predicate is not written.
C4_ConnectorsJoinSuccessors ==
    (Finished /\ Renders(fields)) =>
        Connectors(retQuery) =
            [i \in 1..(Len(fields) - 1) |-> ChainingOf(fields[i])]

\* the last predicate asks for OR, the first for nothing
C4_Witness ==
    /\ Finished
    /\ Renders(fields)
    /\ Len(fields) = 2
    /\ fields[1].ChainingKey = NoChaining
    /\ fields[2].ChainingKey = Or

ChainingArgs == <<StrV(<<"A","l","e","j","a","n","d","r","o">>), IntV(30),
                  StrV(<<"G","o">>)>>

\* WHERE name = $1 OR age = $2 AND course = $3
ChainingFragmentClaimed ==
    <<"W","H","E","R","E"," ","n","a","m","e"," ","="," ","$","1"," ","O",
      "R"," ","a","g","e"," ","="," ","$","2"," ","A","N","D"," ","c","o",
      "u","r","s","e"," ","="," ","$","3">>

\* WHERE name = $1 AND age = $2 OR course = $3
ChainingFragmentRendered ==
    <<"W","H","E","R","E"," ","n","a","m","e"," ","="," ","$","1"," ","A",
      "N","D"," ","a","g","e"," ","="," ","$","2"," ","O","R"," ","c","o",
      "u","r","s","e"," ","="," ","$","3">>

\* C5 as claimed: name, age (chaining key OR) and course render as
\* WHERE name = $1 OR age = $2 AND course = $3 with the three values.
C5_ScenarioAsClaimed ==
    (Finished /\ fields = ScenarioChaining) =>
        retQuery = ChainingFragmentClaimed /\ retArgs = ChainingArgs

\* C5 amended: name, age (chaining key OR) and course render as
\* WHERE name = $1 AND age = $2 OR course = $3 with the three values: the OR
\* of age joins age to course.
C5_ScenarioRendered ==
    (Finished /\ fields = ScenarioChaining) =>
        retQuery = ChainingFragmentRendered /\ retArgs = ChainingArgs

C5_Witness == Finished /\ fields = ScenarioChaining

\* the first Between predicate of fs whose range is not valid
FirstInvalid(fs) ==
    CHOOSE i \in 1..Len(fs) :
        /\ InvalidBetween(fs[i])
        /\ \A j \in 1..(i - 1) : ~InvalidBetween(fs[j])

\* C6: when a Between predicate has no FromValue, no ToValue or values of
\* two types, the failure text is returned in place of the fragment, with
\* nil arguments, whatever was written and appended before; a missing
\* FromValue is reported before a missing ToValue, and that before a
\* mismatch of types.
C6_RangeFailureReturned ==
    (Finished /\ \E i \in 1..Len(fields) : InvalidBetween(fields[i])) =>
        /\ retQuery = RangeFailure(fields[FirstInvalid(fields)])
        /\ retArgs = <<>>

\* an argument was appended and text written before the failure
C6_Witness ==
    /\ Finished
    /\ args # <<>>
    /\ Len(query) > Len(Where)
    /\ retQuery = ErrFromValueIsEmpty
    /\ fields[2].ToValue = Nil
    /\ retArgs = <<>>

\* the text the step from the current state to the next has written
Written == SubSeq(query', Len(query) + 1, Len(query'))

\* the loop body has run over fields[key + 1]
Rendered == pc = "loop" /\ key < Len(fields) /\ key' = key + 1

\* C7: a Between predicate with FromValue and ToValue of one type, rendered
\* when the counter is n, writes "{name} BETWEEN $n AND $(n+1)", appends
\* FromValue then ToValue, and leaves the counter at n + 2.
C7_BetweenConsumesTwo ==
    [][(Rendered /\ fields[key + 1].Operator = Between
          /\ RangeFailure(fields[key + 1]) = <<>>) =>
         /\ HasPrefix(Written,
               ToLower(LoopField.Name) \o <<" ">> \o Between \o <<" ">>
                 \o Placeholder(paramSequence) \o AndConnector
                 \o Placeholder(paramSequence + 1))
         /\ args' = args \o <<fields[key + 1].FromValue,
                              fields[key + 1].ToValue>>
         /\ paramSequence' = paramSequence + 2]_vars

\* C8: a predicate whose operator is In, IsNull or IsNotNull, or whose
\* IsValueFromTable is set, writes no placeholder, appends no argument and
\* leaves the placeholder counter as it was.
C8_NoPlaceholderPredicates ==
    [][(Rendered /\ (\/ fields[key + 1].Operator \in {In, IsNull, IsNotNull}
                     \/ fields[key + 1].IsValueFromTable)) =>
         /\ PlaceholderNumbers(Written) = <<>>
         /\ args' = args
         /\ paramSequence' = paramSequence]_vars

\* C9: the empty sequence yields ErrFieldsAreEmpty and nil arguments.
C9_EmptyFieldsFail ==
    (Finished /\ fields = <<>>) =>
        retQuery = ErrFieldsAreEmpty /\ retArgs = <<>>

C9_Witness == Finished /\ fields = <<>>

\* C10: a rendered fragment begins with "WHERE " and the result of a failure
\* (empty sequence, range failure of a Between predicate) never does.
C10_FailureDistinguishable ==
    Finished => (Renders(fields) <=> HasPrefix(retQuery, Where))

\* a failure returned after "WHERE " and a predicate had been written
C10_Witness ==
    /\ Finished
    /\ ~Renders(fields)
    /\ HasPrefix(query, Where)
    /\ Len(query) > Len(Where)
    /\ retArgs = <<>>
    /\ ~HasPrefix(retQuery, Where)

(***************************************************************************)
(* The membership list.                                                    *)
(***************************************************************************)
SupportedLists == {"[]uint", "[]int", "[]string"}

\* a Value that is no list of a supported type, or is such a list and empty
EmptyOrUnsupported(v) ==
    IF v.t \in SupportedLists THEN v.v = <<>> ELSE TRUE

\* the column of a predicate as it is written: aliased and in lower case
ColumnOf(f) ==
    ToLower(IF f.Source = <<>> THEN f.Name ELSE f.Source \o <<".">> \o f.Name)

GroupPrefix(f) == IF f.GroupOpen THEN <<"(">> ELSE <<>>

\* C11: an In predicate whose Value is an empty list of a supported type, or
\* of any other type, nil included, is written "{column} = 0", never as a
\* list; no argument is appended and no placeholder consumed.
C11_EmptyInMatchesNothing ==
    [][(Rendered /\ fields[key + 1].Operator = In
          /\ EmptyOrUnsupported(fields[key + 1].Value)) =>
         /\ HasPrefix(Written,
               GroupPrefix(fields[key + 1]) \o ColumnOf(fields[key + 1])
                 \o <<" ","=", " ", "0">>)
         /\ InLists(Written) = 0
         /\ PlaceholderNumbers(Written) = <<>>
         /\ args' = args
         /\ paramSequence' = paramSequence]_vars

\* an empty list of strings rendered after a predicate that took $1
C11_Witness ==
    /\ pc = "loop"
    /\ key = 2
    /\ fields[2] = Plain(In, StrsV(<<>>), FALSE)
    /\ args = <<IntV(30)>>
    /\ paramSequence = 2
    /\ query = Where \o <<"i","d"," ","="," ","$","1"," ","A","N","D"," ",
                         "i","d"," ","="," ","0">>

(***************************************************************************)
(* The depth of the groups.                                                *)
(***************************************************************************)
HasSuffix(s, p) ==
    Len(s) >= Len(p) /\ SubSeq(s, Len(s) - Len(p) + 1, Len(s)) = p

\* the depth a predicate is closed at: the groups open before it and its own
DepthAtClose(f, depth) == depth + (IF f.GroupOpen THEN 1 ELSE 0)

\* the ")" a predicate writes for its own GroupClose
OwnClose(f, depth) ==
    IF f.GroupClose /\ DepthAtClose(f, depth) > 0 THEN 1 ELSE 0

\* one rendered predicate: a ")" for GroupClose only at depth > 0, depth 0
\* left at 0, and after the last predicate one ")" for each group left open,
\* at the end of the fragment
GroupCloseStep ==
    LET f == fields[key + 1]
        own == OwnClose(f, nGroups)
        forced == IF key + 1 = Len(fields) THEN nGroups' ELSE 0
    IN  /\ nGroups' = DepthAtClose(f, nGroups) - own
        /\ nGroups' >= 0
        /\ (f.GroupClose /\ DepthAtClose(f, nGroups) = 0) =>
              (GroupCloses(Written) = 0 /\ nGroups' = 0)
        /\ GroupCloses(Written) = own + forced
        /\ key + 1 = Len(fields) =>
              HasSuffix(query', Repeat(<<")">>, own + forced))

\* C12: the depth counter is never negative; a GroupClose at depth 0 writes
\* no ")" and leaves the depth at 0; a ")" for GroupClose is written only at
\* depth > 0; the groups still open after the last predicate are closed by
\* exactly that many ")" at the end of the fragment.
C12_DepthNeverNegative ==
    /\ [](nGroups >= 0)
    /\ [][Rendered => GroupCloseStep]_vars

\* a GroupClose at depth 0 followed by a group that is opened and left open
C12_Witness ==
    /\ Finished
    /\ Len(fields) = 2
    /\ fields[1].GroupClose /\ ~fields[1].GroupOpen
    /\ fields[2].GroupOpen /\ ~fields[2].GroupClose
    /\ nGroups = 1
    /\ GroupCloses(retQuery) = 1
    /\ HasSuffix(retQuery, <<")">>)

(***************************************************************************)
(* The place of the parentheses of a group.                                *)
(***************************************************************************)
\* the connector written after predicate f, none after the last predicate
ConnectorAfter(f, last) ==
    IF last THEN <<>> ELSE <<" ">> \o ChainingOf(f) \o <<" ">>

\* WHERE a = $1 AND (b = $2 OR c = $3)
GroupFragment ==
    <<"W","H","E","R","E"," ","a"," ","="," ","$","1"," ","A","N","D"," ",
      "(","b"," ","="," ","$","2"," ","O","R"," ","c"," ","="," ","$","3",
      ")">>

GroupArgs == <<IntV(1), BoolV(TRUE), BoolV(FALSE)>>

\* one rendered predicate: "(" right before the column when it opens a
\* group, ")" right after its body and before its connector when it closes
\* one
GroupPlacedStep ==
    LET f == fields[key + 1]
        last == key + 1 = Len(fields)
    IN  /\ f.GroupOpen =>
              /\ HasPrefix(Written, <<"(">> \o ColumnOf(f))
              /\ GroupOpens(Written) = 1
        /\ ~f.GroupOpen => GroupOpens(Written) = 0
        /\ OwnClose(f, nGroups) = 1 =>
              /\ HasSuffix(Written,
                    Repeat(<<")">>, GroupCloses(Written))
                      \o ConnectorAfter(f, last))
              /\ ~last => GroupCloses(Written) = 1

\* C13: a group holds the predicate that opens it and the predicate that
\* closes it: "(" stands right before the column of the GroupOpen predicate
\* and ")" right after the body of the GroupClose predicate, before its
\* connector; a = 1, b = true (GroupOpen, Or), c = false (GroupClose) render
\* as WHERE a = $1 AND (b = $2 OR c = $3) with arguments 1, true, false.
C13_GroupHoldsBothEnds ==
    /\ []((Finished /\ fields = ScenarioGroup) =>
            (retQuery = GroupFragment /\ retArgs = GroupArgs))
    /\ [][Rendered => GroupPlacedStep]_vars

\* the scenario rendered to its end
C13_Witness ==
    /\ Finished
    /\ fields = ScenarioGroup
    /\ GroupOpens(retQuery) = 1
    /\ GroupCloses(retQuery) = 1


(***************************************************************************)
(* The calls of the builders and of the helpers.                           *)
(***************************************************************************)
\* enough columns for placeholders of two digits
ManyColumns == [i \in 1..ManyCols |-> <<"c">> \o FormatInt(i)]

ColumnLists ==
    SeqsUpTo({<<"a">>, <<"n","a","m","e">>, <<"B","_","a","t">>}, MaxCols)
      \cup {ManyColumns}

ColumnBuilders ==
    {"BuildSQLInsert", "BuildSQLInsertWithID", "BuildSQLUpdateByID",
     "BuildSQLSelect", "BuildSQLSelectFields"}

\* the error a name of a constraint is mapped to
DomainError(name) == <<ErrorString(<<"d","o","m","a","i","n"," ">> \o name)>>

\* the mappings of callers: every set of the two mapped names, and a name
\* mapped to nil
ConstraintMaps ==
    {[n \in S |-> DomainError(n)] : S \in SUBSET {<<"u","k">>, <<"f","k">>}}
      \cup {[n \in {<<"u","k">>} |-> NilError]}

\* nil, an error of another type, driver errors with and without the name of
\* a constraint, and the same wrapped with %w once and twice
Errors ==
    {NilError, <<ErrorString(<<"b","o","o","m">>)>>,
     <<WrapError(<<"e","x","e","c">>), ErrorString(<<"b","o","o","m">>)>>}
      \cup {<<PqError(c)>> : c \in {<<"u","k">>, <<"f","k">>, <<"c","k">>, <<>>}}
      \cup {<<WrapError(<<"e","x","e","c">>), PqError(c)>> : c \in {<<"u","k">>, <<"c","k">>}}
      \cup {<<WrapError(<<"t","x">>), WrapError(<<"e","x","e","c">>), PqError(<<"f","k">>)>>}

\* the errors CheckError is given: nil, an error of another type, driver
\* errors with each code of the switch, with the code of another class and
\* with no code, and a unique violation wrapped with %w
CodedErrors ==
    {NilError, <<ErrorString(<<"b","o","o","m">>)>>,
     <<WrapError(<<"e","x","e","c">>), PqErrorCode(<<"2","3","5","0","5">>)>>}
      \cup {<<PqErrorCode(c)>> :
               c \in {<<"2","3","5","0","5">>, <<"2","3","5","0","3">>, <<"2","3","5","0","2">>,
                      <<"2","3","5","1","4">>, <<"4","2","P","0","1">>, <<>>}}

\* the variables of BuildSQLWhere, which is not called
whereVars ==
    <<fields, key, query, args, paramSequence, nGroups, retQuery, retArgs,
      procs>>

\* one of the builders is about to be called: a column builder with a table
\* and columns, ColumnsAliased, BuildSQLOrderBy with sorts of every order and
\* source, BuildSQLPagination with every Pagination, CheckConstraint,
\* CheckError, or a validation of predicates with names and sources in both
\* cases
InitBuilders ==
    /\ \/ \E f \in ColumnBuilders, t \in {<<"t">>, <<"u","s","e","r","s">>},
             cs \in ColumnLists :
             call = [fn |-> f, table |-> t, fields |-> cs]
       \/ \E cs \in ColumnLists, a \in {<<"u">>, <<"p","e">>} :
             call = [fn |-> "ColumnsAliased", fields |-> cs, aliased |-> a]
       \/ \E ss \in SeqsUpTo(
                    {SortField(n, o, s) :
                        n \in {<<"I","d">>, <<"n","a","m","e">>},
                        o \in {NoOrder, Asc, Desc},
                        s \in {<<>>, <<"T">>}},
                    MaxSorts) :
             call = [fn |-> "BuildSQLOrderBy", sorts |-> ss]
       \/ \E p \in 0..(UintModulus - 1), l \in 0..(UintModulus - 1),
             m \in 0..(UintModulus - 1) :
             call = [fn |-> "BuildSQLPagination", pag |-> Pagination(p, l, m)]
       \/ \E m \in ConstraintMaps, e \in Errors :
             call = [fn |-> "CheckConstraint", constraints |-> m, err |-> e]
       \/ \E e \in CodedErrors :
             call = [fn |-> "CheckError", err |-> e]
       \/ \E f \in {"ValidateNames", "ValidateSources"},
             fs \in SeqsUpTo(
                    {[Pred(n, IntV(30)) EXCEPT !.Source = s] :
                        n \in {<<"I","d">>, <<"N","A","M","E">>, <<"x">>},
                        s \in {<<>>, <<"T">>, <<"u">>}},
                    MaxLen),
             al \in SeqsUpTo(
                    {<<"I","D">>, <<"n","a","m","e">>, <<"t">>, <<>>},
                    MaxAllowed) :
             call = [fn |-> f, fs |-> fs, allowed |-> al]
    /\ result = NoResult
    /\ pc = "builder"
    /\ fields = <<>>
    /\ key = 0
    /\ query = <<>>
    /\ args = <<>>
    /\ paramSequence = 0
    /\ nGroups = 0
    /\ retQuery = <<>>
    /\ retArgs = <<>>
    /\ procs = <<>>

Called(fn) == pc = "builder" /\ call.fn = fn

DoBuildSQLInsert ==
    /\ Called("BuildSQLInsert")
    /\ result' = BuildSQLInsert(call.table, call.fields)
    /\ pc' = "returned"
    /\ UNCHANGED <<call, whereVars>>

DoBuildSQLInsertWithID ==
    /\ Called("BuildSQLInsertWithID")
    /\ result' = BuildSQLInsertWithID(call.table, call.fields)
    /\ pc' = "returned"
    /\ UNCHANGED <<call, whereVars>>

DoBuildSQLUpdateByID ==
    /\ Called("BuildSQLUpdateByID")
    /\ result' = BuildSQLUpdateByID(call.table, call.fields)
    /\ pc' = "returned"
    /\ UNCHANGED <<call, whereVars>>

DoBuildSQLSelect ==
    /\ Called("BuildSQLSelect")
    /\ result' = BuildSQLSelect(call.table, call.fields)
    /\ pc' = "returned"
    /\ UNCHANGED <<call, whereVars>>

DoBuildSQLSelectFields ==
    /\ Called("BuildSQLSelectFields")
    /\ result' = BuildSQLSelectFields(call.table, call.fields)
    /\ pc' = "returned"
    /\ UNCHANGED <<call, whereVars>>

DoColumnsAliased ==
    /\ Called("ColumnsAliased")
    /\ result' = ColumnsAliased(call.fields, call.aliased)
    /\ pc' = "returned"
    /\ UNCHANGED <<call, whereVars>>

DoBuildSQLOrderBy ==
    /\ Called("BuildSQLOrderBy")
    /\ result' = BuildSQLOrderBy(call.sorts)
    /\ call' = [call EXCEPT !.sorts = RangeSorts(call.sorts)]
    /\ pc' = "returned"
    /\ UNCHANGED whereVars

DoBuildSQLPagination ==
    /\ Called("BuildSQLPagination")
    /\ result' = BuildSQLPagination(call.pag)
    /\ call' = [call EXCEPT !.pag = PassPagination(call.pag)]
    /\ pc' = "returned"
    /\ UNCHANGED whereVars

DoCheckConstraint ==
    /\ Called("CheckConstraint")
    /\ result' = CheckConstraint(call.constraints, call.err)
    /\ pc' = "returned"
    /\ UNCHANGED <<call, whereVars>>

DoCheckError ==
    /\ Called("CheckError")
    /\ result' = CheckError(call.err)
    /\ pc' = "returned"
    /\ UNCHANGED <<call, whereVars>>

DoValidateNames ==
    /\ Called("ValidateNames")
    /\ result' = ValidateNames(call.fs, call.allowed)
    /\ pc' = "returned"
    /\ UNCHANGED <<call, whereVars>>

DoValidateSources ==
    /\ Called("ValidateSources")
    /\ result' = ValidateSources(call.fs, call.allowed)
    /\ pc' = "returned"
    /\ UNCHANGED <<call, whereVars>>

NextBuilders ==
    \/ DoBuildSQLInsert
    \/ DoBuildSQLInsertWithID
    \/ DoBuildSQLUpdateByID
    \/ DoBuildSQLSelect
    \/ DoBuildSQLSelectFields
    \/ DoColumnsAliased
    \/ DoBuildSQLOrderBy
    \/ DoBuildSQLPagination
    \/ DoCheckConstraint
    \/ DoCheckError
    \/ DoValidateNames
    \/ DoValidateSources

SpecBuilders == InitBuilders /\ [][NextBuilders]_vars

\* BuildSQLWhere or one of the builders is called
SpecCalls == (Init \/ InitBuilders) /\ [][Next \/ NextBuilders]_vars

\* the builder has returned
Returned(fn) == pc = "returned" /\ call.fn = fn


(***************************************************************************)
(* What a call leaves of the input of its caller.                          *)
(***************************************************************************)
\* C14: no step of BuildSQLWhere, of BuildSQLOrderBy or of
\* BuildSQLPagination, in a render that succeeds or fails, changes a field
\* of a predicate, of a sort or of the pagination the caller handed in: the
\* defaults and the "(" are set on copies.
C14_InputNotMutated ==
    [][fields' = fields /\ call' = call]_vars

\* a render that needed a default, an alias and a "(" has returned, and the
\* first predicate of the caller has none of them
C14_Witness ==
    /\ Finished
    /\ Len(fields) = 2
    /\ fields[1].GroupOpen
    /\ fields[1].ChainingKey = NoChaining
    /\ fields[1].Name = ColId
    /\ HasPrefix(retQuery, Where \o <<"(","i","d">>)
    /\ Connectors(retQuery) = <<And>>


(***************************************************************************)
(* Concurrent calls of BuildSQLWhere over one sequence. Each call has its  *)
(* own locals; the sequence is what the calls share.                       *)
(***************************************************************************)
Procs == 1..NumCalls

\* predicates whose defaults show in the fragment: a source, a group, a
\* chaining key to default, a list, a range that fails and one that holds
ConcurrentDomain ==
    {Plain(NoOperator, IntV(30), FALSE),
     [Plain(NoOperator, StrV(<<"G","o">>), FALSE) EXCEPT
         !.Source = <<"T">>, !.GroupOpen = TRUE, !.ChainingKey = Or],
     [Plain(In, UintsV(<<1, 4>>), FALSE) EXCEPT !.GroupClose = TRUE],
     [Plain(LessThan, Nil, TRUE) EXCEPT
         !.Source = <<"c">>, !.SourceNameValueFromTable = <<"P">>],
     [Range(IntV(1), IntV(2), Nil, FALSE) EXCEPT !.GroupOpen = TRUE],
     Range(IntV(1), Nil, Nil, FALSE)}

\* the locals of a call that has not started: input is the sequence as the
\* caller handed it in
CallLocals(fs) ==
    [pc |-> "call", input |-> fs, key |-> 0, field |-> Nil, query |-> <<>>,
     args |-> <<>>, paramSequence |-> 0, nGroups |-> 0,
     retQuery |-> <<>>, retArgs |-> <<>>]

\* the initialisation of the locals before the loop
BeginLocals(l) ==
    [l EXCEPT !.pc = "range", !.query = Where, !.nGroups = 0, !.args = <<>>,
              !.paramSequence = 1, !.key = 0]

\* a call that returns res
ReturnLocals(l, res) ==
    [l EXCEPT !.pc = "done", !.retQuery = res.query, !.retArgs = res.args]

\* "for key, field := range fields": the next element is copied into field
RangeLocals(l, fs) == [l EXCEPT !.pc = "body", !.field = fs[l.key + 1]]

\* the validation of a Between predicate fails on the defaulted copy
BodyFails(l) ==
    LET field == setDefaultValuesField(l.field)
    IN  field.Operator = Between /\ ValidateFromAndToValues(field) # <<>>

BodyFailure(l) ==
    ValidationFailureResult(
        ValidateFromAndToValues(setDefaultValuesField(l.field)))

\* the locals after the body of the loop, n the length of the sequence
BodyLocals(l, n) ==
    LET field == setDefaultValuesField(l.field)
        lastFieldIndex == n - 1
        opened == OpenGroup(field, l.nGroups)
    IN  [l EXCEPT
            !.pc = "range",
            !.query = l.query
                 \o WritePredicate(field, l.paramSequence)
                 \o WriteGroupClose(field, opened, l.key, lastFieldIndex)
                 \o WriteChainingKey(field, l.key, lastFieldIndex),
            !.nGroups = CloseGroup(field, opened),
            !.args = IF SkipsArguments(field) THEN l.args
                     ELSE AppendArguments(field, l.args),
            !.paramSequence = EndParamSequence(field, l.paramSequence),
            !.key = l.key + 1]

\* BuildSQLWhere run from the locals l to its return, with no other call
RECURSIVE RunFrom(_, _)
RunFrom(fs, l) ==
    IF l.key = Len(fs) THEN [query |-> l.query, args |-> l.args]
    ELSE LET c == RangeLocals(l, fs)
         IN  IF BodyFails(c) THEN BodyFailure(c)
             ELSE RunFrom(fs, BodyLocals(c, Len(fs)))

\* what BuildSQLWhere returns for fs when it runs alone
RunAlone(fs) ==
    IF IsEmpty(fs) THEN FieldsEmptyResult
    ELSE RunFrom(fs, BeginLocals(CallLocals(fs)))

\* the variables of a single call, which is not made
singleVars ==
    <<pc, key, query, args, paramSequence, nGroups, retQuery, retArgs,
      call, result>>

InitConcurrent ==
    /\ fields \in SeqsUpTo(ConcurrentDomain, MaxLen)
    /\ procs = [p \in Procs |-> CallLocals(fields)]
    /\ pc = "concurrent"
    /\ key = 0
    /\ query = <<>>
    /\ args = <<>>
    /\ paramSequence = 0
    /\ nGroups = 0
    /\ retQuery = <<>>
    /\ retArgs = <<>>
    /\ call = NoCall
    /\ result = NoResult

ProcReturnFieldsEmpty(p) ==
    /\ procs[p].pc = "call"
    /\ IsEmpty(fields)
    /\ procs' = [procs EXCEPT ![p] = ReturnLocals(@, FieldsEmptyResult)]
    /\ UNCHANGED <<fields, singleVars>>

ProcBegin(p) ==
    /\ procs[p].pc = "call"
    /\ ~IsEmpty(fields)
    /\ procs' = [procs EXCEPT ![p] = BeginLocals(@)]
    /\ UNCHANGED <<fields, singleVars>>

ProcRange(p) ==
    /\ procs[p].pc = "range"
    /\ procs[p].key < Len(fields)
    /\ procs' = [procs EXCEPT ![p] = RangeLocals(@, fields)]
    /\ UNCHANGED <<fields, singleVars>>

ProcIterateFails(p) ==
    /\ procs[p].pc = "body"
    /\ BodyFails(procs[p])
    /\ procs' = [procs EXCEPT ![p] = ReturnLocals(@, BodyFailure(@))]
    /\ UNCHANGED <<fields, singleVars>>

ProcIterate(p) ==
    /\ procs[p].pc = "body"
    /\ ~BodyFails(procs[p])
    /\ procs' = [procs EXCEPT ![p] = BodyLocals(@, Len(fields))]
    /\ fields' = RangeFields(fields, procs[p].key,
                             setDefaultValuesField(procs[p].field))
    /\ UNCHANGED singleVars

ProcReturn(p) ==
    /\ procs[p].pc = "range"
    /\ procs[p].key = Len(fields)
    /\ procs' = [procs EXCEPT ![p] =
                    ReturnLocals(@, [query |-> @.query, args |-> @.args])]
    /\ UNCHANGED <<fields, singleVars>>

NextConcurrent ==
    \E p \in Procs :
        \/ ProcReturnFieldsEmpty(p)
        \/ ProcBegin(p)
        \/ ProcRange(p)
        \/ ProcIterateFails(p)
        \/ ProcIterate(p)
        \/ ProcReturn(p)

SpecConcurrent == InitConcurrent /\ [][NextConcurrent]_vars

\* C15: whatever the interleaving of the steps of concurrent calls of
\* BuildSQLWhere over one sequence, a call that has returned has returned
\* the fragment and the arguments it returns for that sequence when it runs
\* alone.
C15_ConcurrentAsAlone ==
    \A p \in Procs :
        procs[p].pc = "done" =>
            [query |-> procs[p].retQuery, args |-> procs[p].retArgs]
                = RunAlone(procs[p].input)

\* a call has returned a fragment with an alias and a group while another
\* call is in the body of its loop
C15_Witness ==
    /\ procs[1].pc = "done"
    /\ procs[2].pc = "body"
    /\ procs[2].key = 0
    /\ Len(fields) = 2
    /\ fields[1].GroupOpen
    /\ fields[1].Source # <<>>
    /\ GroupOpens(procs[1].retQuery) = 1
    /\ procs[1].retArgs # <<>>


(***************************************************************************)
(* The pagination fragment.                                                *)
(***************************************************************************)
LimitKeyword == <<"L","I","M","I","T"," ">>
OffsetKeyword == <<" ","O","F","F","S","E","T"," ">>

\* a number written in decimal at text[i..j-1], without a sign or a zero
\* before it
DecimalAt(text, i, j) ==
    /\ j > i
    /\ \A k \in i..(j - 1) : IsDigit(text[k])
    /\ (j - i > 1) => text[i] # "0"

\* text is "LIMIT l OFFSET o"
ReadsLimitOffset(text, l, o) ==
    LET i == Len(LimitKeyword) + 1
        j == DigitsEnd(text, i)
        k == j + Len(OffsetKeyword)
        e == DigitsEnd(text, k)
    IN  /\ StartsAt(text, 1, LimitKeyword)
        /\ DecimalAt(text, i, j)
        /\ StartsAt(text, j, OffsetKeyword)
        /\ DecimalAt(text, k, e)
        /\ e = Len(text) + 1
        /\ ParseInt(text, i, j) = l
        /\ ParseInt(text, k, e) = o

\* MaxLimit, 20 when it is not set
EffectiveMaxLimit(pag) == IF pag.MaxLimit = 0 THEN 20 ELSE pag.MaxLimit

\* Limit, MaxLimit when it is not set or above MaxLimit
ClampedLimit(pag) ==
    IF pag.Limit = 0 \/ pag.Limit > EffectiveMaxLimit(pag)
    THEN EffectiveMaxLimit(pag)
    ELSE pag.Limit

\* Page, 1 when it is not set
EffectivePage(pag) == IF pag.Page = 0 THEN 1 ELSE pag.Page

\* (page - 1) * l in the arithmetic of uint
ClaimedOffset(pag) ==
    ((EffectivePage(pag) - 1) * ClampedLimit(pag)) % UintModulus

\* C16: BuildSQLPagination returns the empty string exactly when Page and
\* Limit are both 0; otherwise it returns "LIMIT l OFFSET o" with l the
\* Limit clamped to the effective MaxLimit (20 when unset), 1 <= l <=
\* MaxLimit, and o = (page - 1) * l in the arithmetic of uint, page being 1
\* when Page is 0.
C16_PaginationClamped ==
    Returned("BuildSQLPagination") =>
        /\ (result = <<>>) <=> (call.pag.Page = 0 /\ call.pag.Limit = 0)
        /\ ~(call.pag.Page = 0 /\ call.pag.Limit = 0) =>
              /\ ReadsLimitOffset(result, ClampedLimit(call.pag),
                                  ClaimedOffset(call.pag))
              /\ 1 <= ClampedLimit(call.pag)
              /\ ClampedLimit(call.pag) <= EffectiveMaxLimit(call.pag)

\* a page of the default size whose product with the page wraps around
C16_Witness ==
    /\ Returned("BuildSQLPagination")
    /\ call.pag.Limit = 0
    /\ call.pag.MaxLimit = 0
    /\ call.pag.Page * ClampedLimit(call.pag) >= UintModulus
    /\ result # <<>>


(***************************************************************************)
(* Reading the lists of a statement.                                       *)
(***************************************************************************)
\* the first index from i on where pat stands in text, 0 when it does not
IndexFrom(text, pat, i) ==
    LET found == {j \in i..Len(text) : StartsAt(text, j, pat)}
    IN  IF found = {} THEN 0
        ELSE CHOOSE j \in found : \A k \in found : j <= k

\* the text after the first pat of text
TextAfter(text, pat) ==
    SubSeq(text, IndexFrom(text, pat, 1) + Len(pat), Len(text))

\* the text before the first pat of text
TextBefore(text, pat) == SubSeq(text, 1, IndexFrom(text, pat, 1) - 1)

\* the text between the first from of text and the first to after it
TextBetween(text, from, to) == TextBefore(TextAfter(text, from), to)

\* the items of a list separated by ", "
RECURSIVE Items(_)
Items(text) ==
    IF IndexFrom(text, <<","," ">>, 1) = 0 THEN <<text>>
    ELSE <<TextBefore(text, <<","," ">>)>> \o Items(TextAfter(text, <<",",
                                                                      " ">>))

\* item is the placeholder of number n
IsPlaceholder(item, n) ==
    /\ Len(item) >= 2
    /\ item[1] = "$"
    /\ DecimalAt(item, 2, Len(item) + 1)
    /\ ParseInt(item, 2, Len(item) + 1) = n

\* the columns and the values of an INSERT statement
InsertColumns(text) == Items(TextBetween(text, <<" ","(">>, <<")"," ","V",
                                                              "A","L","U",
                                                              "E","S"," ",
                                                              "(">>))
InsertPlaceholders(text) ==
    Items(TextBetween(text, <<")"," ","V","A","L","U","E","S"," ","(">>, <<
                                                                           ")",
                                                                           " ",
                                                                           "R",
                                                                           "E",
                                                                           "T",
                                                                           "U",
                                                                           "R",
                                                                           "N",
                                                                           "I",
                                                                           "N",
                                                                           "G",
                                                                           " ">>))

\* the assignments of an UPDATE statement and its condition
UpdateAssignments(text) == Items(TextBetween(text, <<" ","S","E","T"," ">>, <<
                                                                              " ",
                                                                              "W",
                                                                              "H",
                                                                              "E",
                                                                              "R",
                                                                              "E",
                                                                              " ">>))
UpdateCondition(text) == TextAfter(text, <<" ","W","H","E","R","E"," ">>)

\* BuildSQLInsert binds column i to $i and uses $1..$n
InsertNumbered ==
    LET cols == InsertColumns(result)
        vals == InsertPlaceholders(result)
        n == Len(call.fields)
    IN  /\ cols = call.fields
        /\ Len(vals) = n
        /\ \A i \in 1..n : IsPlaceholder(vals[i], i)
        /\ CountChar(result, "$") = n

\* BuildSQLInsertWithID binds id to $1, column i to $(i+1), and uses
\* $1..$(n+1)
InsertWithIDNumbered ==
    LET cols == InsertColumns(result)
        vals == InsertPlaceholders(result)
        n == Len(call.fields)
    IN  /\ cols = <<<<"i","d">>>> \o call.fields
        /\ Len(vals) = n + 1
        /\ \A i \in 1..(n + 1) : IsPlaceholder(vals[i], i)
        /\ CountChar(result, "$") = n + 1

\* BuildSQLUpdateByID sets column i to $i and compares id with $(n+1)
UpdateNumbered ==
    LET sets == UpdateAssignments(result)
        n == Len(call.fields)
    IN  /\ Len(sets) = n + 1
        /\ \A i \in 1..n :
              /\ HasPrefix(sets[i], call.fields[i] \o <<" ","="," ">>)
              /\ IsPlaceholder(TextAfter(sets[i], <<" ","="," ">>), i)
        /\ sets[n + 1] = <<"u","p","d","a","t","e","d","_","a","t"," ","="," ","n","o","w","(",")">>
        /\ HasPrefix(UpdateCondition(result), <<"i","d"," ","="," ">>)
        /\ IsPlaceholder(TextAfter(UpdateCondition(result), <<"i","d"," ",
                                                              "="," ">>), n + 1)
        /\ CountChar(result, "$") = n + 1

\* C17: for one column or more, BuildSQLInsert binds column i to $i and uses
\* $1..$n; BuildSQLInsertWithID binds id to $1 and column i to $(i+1), using
\* $1..$(n+1); BuildSQLUpdateByID sets column i to $i and uses $(n+1) in
\* "WHERE id ="; no number is repeated or skipped.
C17_PlaceholdersConsecutive ==
    /\ (Returned("BuildSQLInsert") /\ call.fields # <<>>) => InsertNumbered
    /\ (Returned("BuildSQLInsertWithID") /\ call.fields # <<>>) =>
          InsertWithIDNumbered
    /\ (Returned("BuildSQLUpdateByID") /\ call.fields # <<>>) =>
          UpdateNumbered

\* an UPDATE of enough columns for placeholders of two digits
C17_Witness ==
    /\ Returned("BuildSQLUpdateByID")
    /\ call.fields = ManyColumns
    /\ Len(UpdateAssignments(result)) = ManyCols + 1
    /\ IsPlaceholder(TextAfter(UpdateCondition(result), <<"i","d"," ","=",
                                                          " ">>),
                     ManyCols + 1)


(***************************************************************************)
(* The builders given nothing.                                             *)
(***************************************************************************)
\* text is a statement or a clause of SQL
IsStatement(text) ==
    \/ HasPrefix(text, <<"I","N","S","E","R","T"," ">>)
    \/ HasPrefix(text, <<"U","P","D","A","T","E"," ">>)
    \/ HasPrefix(text, <<"S","E","L","E","C","T"," ">>)

\* C18: BuildSQLInsert, BuildSQLInsertWithID, BuildSQLUpdateByID,
\* BuildSQLSelect and BuildSQLSelectFields return the sentinel of empty
\* fields for an empty column list, never a statement; BuildSQLOrderBy and
\* ColumnsAliased return the empty string for empty input.
C18_EmptyColumnsRefused ==
    /\ \A f \in ColumnBuilders :
          (Returned(f) /\ call.fields = <<>>) =>
              (result = ErrFieldsAreEmpty /\ ~IsStatement(result))
    /\ (Returned("BuildSQLOrderBy") /\ call.sorts = <<>>) => result = <<>>
    /\ (Returned("ColumnsAliased") /\ call.fields = <<>>) => result = <<>>

\* a SELECT asked for no column
C18_Witness ==
    /\ Returned("BuildSQLSelect")
    /\ call.fields = <<>>
    /\ result = ErrFieldsAreEmpty


(***************************************************************************)
(* The classification of a constraint violation.                           *)
(***************************************************************************)
\* err is a driver error: the error, or an error it wraps, is a *pq.Error
IsDriverError(err) == \E i \in 1..Len(err) : err[i].type = "*pq.Error"

\* the name of the constraint of a driver error
ConstraintOf(err) ==
    LET i == CHOOSE j \in 1..Len(err) :
                 /\ err[j].type = "*pq.Error"
                 /\ \A k \in 1..(j - 1) : err[k].type # "*pq.Error"
    IN  err[i].Constraint

\* the case of the mapped error
Mapped(constraints, err) ==
    IsDriverError(err) /\ ConstraintOf(err) \in DOMAIN constraints

\* C19: CheckConstraint returns the error the mapping holds for the name of
\* the constraint when the input is a driver error and the name is a key of
\* the mapping; in every other case, the input not being a driver error or
\* the name not being a key, it returns the input as it was.
C19_ConstraintMapped ==
    Returned("CheckConstraint") =>
        IF Mapped(call.constraints, call.err)
        THEN result = call.constraints[ConstraintOf(call.err)]
        ELSE result = call.err

\* a wrapped violation of a mapped constraint, classified
C19_Witness ==
    /\ Returned("CheckConstraint")
    /\ Len(call.err) = 2
    /\ call.err[2] = PqError(<<"u","k">>)
    /\ <<"u","k">> \in DOMAIN call.constraints
    /\ result = DomainError(<<"u","k">>)


(***************************************************************************)
(* The allow-lists.                                                        *)
(***************************************************************************)
\* c and d are one character, or the two cases of one letter
SameLetter(c, d) ==
    \/ c = d
    \/ \E k \in DOMAIN UpperChars :
          {c, d} = {UpperChars[k], LowerChars[k]}

SameIgnoringCase(a, b) ==
    Len(a) = Len(b) /\ \A i \in 1..Len(a) : SameLetter(a[i], b[i])

\* name equals, ignoring case, some entry of the allow-list
InAllowList(name, allowed) ==
    \E j \in 1..Len(allowed) : SameIgnoringCase(name, allowed[j])

\* the first entry of names that is not in the allow-list
FirstNotAllowed(names, allowed) ==
    names[CHOOSE i \in 1..Len(names) :
              /\ ~InAllowList(names[i], allowed)
              /\ \A j \in 1..(i - 1) : InAllowList(names[j], allowed)]

\* no error exactly when every name is allowed, and a failure that names
\* the first one that is not otherwise
Validated(names, allowed, what) ==
    IF \A i \in 1..Len(names) : InAllowList(names[i], allowed)
    THEN result = NilError
    ELSE result = <<"t","h","e"," ">> \o what \o <<" ">>
                    \o FirstNotAllowed(names, allowed)
                    \o <<" ","i","s"," ","n","o","t"," ","a","l","l","o",
                         "w","e","d"," ","f","o","r"," ","q","u","e","r","y">>

\* C20: Fields.ValidateNames (ValidateSources) returns no error exactly when
\* the Name (Source) of every predicate equals, ignoring case, an entry of
\* the allow-list; otherwise it returns a failure that names the first Name
\* (Source) in the order of the sequence that is not allowed; the sequence
\* is never modified.
C20_AllowListValidated ==
    /\ [](Returned("ValidateNames") =>
            Validated([i \in 1..Len(call.fs) |-> call.fs[i].Name],
                      call.allowed, <<"f","i","e","l","d">>))
    /\ [](Returned("ValidateSources") =>
            Validated([i \in 1..Len(call.fs) |-> call.fs[i].Source],
                      call.allowed, <<"s","o","u","r","c","e">>))
    /\ [][call.fn \in {"ValidateNames", "ValidateSources"} =>
            call' = call]_vars

\* a source allowed in another case, followed by one that is not allowed
C20_Witness ==
    /\ Returned("ValidateSources")
    /\ Len(call.fs) = 2
    /\ call.fs[1].Source = <<"T">>
    /\ call.fs[2].Source = <<"u">>
    /\ call.allowed = <<<<"t">>>>
    /\ result = <<"t","h","e"," ","s","o","u","r","c","e"," ","u"," ","i",
                  "s"," ","n","o","t"," ","a","l","l","o","w","e","d"," ",
                  "f","o","r"," ","q","u","e","r","y">>


(***************************************************************************)
(* The arguments of a range.                                               *)
(***************************************************************************)
\* C21: a Between predicate that is rendered appends exactly two arguments,
\* FromValue then ToValue, as many as the placeholders it writes, whether
\* its Value is set or not: Value is never appended for it.
C21_BetweenAppendsTwo ==
    [][(Rendered /\ fields[key + 1].Operator = Between) =>
         /\ Len(args') = Len(args) + 2
         /\ args' = args \o <<fields[key + 1].FromValue,
                              fields[key + 1].ToValue>>
         /\ CountChar(Written, "$") = 2]_vars


(***************************************************************************)
(* The nesting of the parentheses.                                         *)
(***************************************************************************)
\* from index i on, with d parentheses open, no ")" closes more than is open
RECURSIVE NeverBelow(_, _, _)
NeverBelow(text, i, d) ==
    IF i > Len(text) THEN TRUE
    ELSE LET e == IF text[i] = "(" THEN d + 1
                  ELSE IF text[i] = ")" THEN d - 1
                  ELSE d
         IN  e >= 0 /\ NeverBelow(text, i + 1, e)

\* in every prefix of text the ")" are no more than the "("
WellNested(text) == NeverBelow(text, 1, 0)

\* the grouping "(" of a text less its grouping ")"
OpenDepth(text) == GroupOpens(text) - GroupCloses(text)

\* C22 as claimed: the parentheses of every fragment are well nested, and
\* after each predicate is rendered the "(" less the ")" written so far
\* equal the depth counter.
C22_NestedAndCounted ==
    /\ [](WellNested(query) /\ WellNested(retQuery))
    /\ [][Rendered => OpenDepth(query') = nGroups']_vars

\* C22: the parentheses of every fragment are well nested; after each
\* predicate but the last the "(" less the ")" written so far equal the
\* depth counter; after the last predicate every group is closed, and the
\* counter keeps the number of the groups that were closed by force.
C22_NestedAndCountedBeforeLast ==
    /\ [](WellNested(query) /\ WellNested(retQuery))
    /\ [][Rendered =>
            IF key + 1 = Len(fields)
            THEN /\ OpenDepth(query') = 0
                 /\ nGroups' = OpenDepth(query) + GroupOpens(Written)
                                 - OwnClose(fields[key + 1], nGroups)
            ELSE OpenDepth(query') = nGroups']_vars

\* one predicate that opens a group and leaves it to the forced close
C22_Witness ==
    /\ Finished
    /\ Len(fields) = 1
    /\ fields[1].GroupOpen /\ ~fields[1].GroupClose
    /\ OpenDepth(retQuery) = 0
    /\ WellNested(retQuery)
    /\ nGroups = 1


(***************************************************************************)
(* The classification of driver errors by their code.                      *)
(***************************************************************************)
\* the error is a driver error with this code: the error value itself, which
\* is what CheckError looks at; an error that wraps a driver error is not one
HasCode(err, code) ==
    /\ Len(err) > 0
    /\ err[1].type = "*pq.Error"
    /\ err[1].Code = code

\* C23: CheckError returns UniqueViolation for a driver error with code
\* 23505, ForeignKeyViolation for code 23503 and NotNullViolation for code
\* 23502; for every other input, a driver error with another code or an
\* error that is not a driver error, it returns nil and not the input, so
\* that an error that is not nil can give nil.
C23_CodesClassified ==
    Returned("CheckError") =>
        IF HasCode(call.err, <<"2","3","5","0","5">>)
        THEN result = <<ErrorString(<<"U","n","i","q","u","e"," ","v","i","o","l","a","t","i","o","n">>)>>
        ELSE IF HasCode(call.err, <<"2","3","5","0","3">>)
        THEN result = <<ErrorString(<<"F","o","r","e","i","g","n"," ","k","e","y"," ","v","i","o","l","a","t","i","o","n">>)>>
        ELSE IF HasCode(call.err, <<"2","3","5","0","2">>)
        THEN result = <<ErrorString(<<"N","o","t"," ","N","u","l","l"," ","v","i","o","l","a","t","i","o","n">>)>>
        ELSE result = <<>>

\* a driver error with the code of a check violation, which is not nil,
\* gives nil
C23_Witness ==
    /\ Returned("CheckError")
    /\ call.err = <<PqErrorCode(<<"2","3","5","1","4">>)>>
    /\ call.err # NilError
    /\ result = NilError

====
